---- MODULE Spec2Model ----
(***************************************************************************)
(* Attendance / productivity analyzer (src/app/api/upload/route.ts).       *)
(*                                                                         *)
(* route.ts holds three handler variants:                                  *)
(*   "strict"  lines   1-179  parseTime / parseDate, in-memory totals      *)
(*   "persist" lines 180-410  same parsers, records upserted and re-read   *)
(*   "datefns" lines 411-533  date-fns dates, raw-cell time handling       *)
(*                                                                         *)
(* Text is a sequence of one-character strings, so that trim, split,       *)
(* parseInt and padStart are computed character by character.  Hours are   *)
(* kept in hundredths (8.5 h = 850), productivity in tenths of a percent.  *)
(***************************************************************************)
EXTENDS Integers, Sequences, FiniteSets, TLC

VARIABLES timeVal, parsed, variant, today, row, metrics,
          employees, attendance, storeUp, request, response, uploads,
          page, home, handler

vars == <<timeVal, parsed, variant, today, row, metrics,
          employees, attendance, storeUp, request, response, uploads,
          page, home, handler>>

serverVars == <<employees, attendance, storeUp, request, response, uploads>>

clientVars == <<page, home, handler>>

\* ------------------------------------------------------------------------
\* Bounds
\* ------------------------------------------------------------------------
MaxLen == 4

\* ------------------------------------------------------------------------
\* Cells.  A cell is undefined, null, a string, a finite number (given in
\* tenths), a non-finite or out-of-range number ("nan"), or a Date object
\* (valid, holding its day number since 1970-01-01, or invalid).
\* ------------------------------------------------------------------------
Undef == [t |-> "undef", s |-> <<>>, n |-> 0]

JsNull == [t |-> "null", s |-> <<>>, n |-> 0]

NanCell == [t |-> "nan", s |-> <<>>, n |-> 0]

DateCell(day) == [t |-> "date", s |-> <<>>, n |-> day]

BadDateCell == [t |-> "baddate", s |-> <<>>, n |-> 0]

Str(s) == [t |-> "str", s |-> s, n |-> 0]

Num(n) == [t |-> "num", s |-> <<>>, n |-> n]

Digits == <<"0", "1", "2", "3", "4", "5", "6", "7", "8", "9">>

IsDigit(c) == \E i \in 1..10 : Digits[i] = c

DigitVal(c) ==
    CASE c = "0" -> 0 [] c = "1" -> 1 [] c = "2" -> 2 [] c = "3" -> 3 [] c = "4" -> 4
      [] c = "5" -> 5 [] c = "6" -> 6 [] c = "7" -> 7 [] c = "8" -> 8 [] c = "9" -> 9

IsSpace(c) == c = " "

Abs(x) == IF x < 0 THEN -x ELSE x

\* Number.prototype.toString for a non-negative integer.
RECURSIVE NatToString(_)
NatToString(n) ==
    IF n < 10 THEN <<Digits[n + 1]>>
    ELSE NatToString(n \div 10) \o <<Digits[(n % 10) + 1]>>

\* Number.prototype.toString for an integer (minus zero prints as "0").
IntToString(n) == IF n < 0 THEN <<"-">> \o NatToString(-n) ELSE NatToString(n)

\* String(number) for a number held in tenths: 95 -> "9.5", 90 -> "9".
NumToString(n) ==
    (IF n < 0 THEN <<"-">> ELSE <<>>)
        \o NatToString(Abs(n) \div 10)
        \o (IF Abs(n) % 10 = 0 THEN <<>> ELSE <<".", Digits[(Abs(n) % 10) + 1]>>)

\* JavaScript truthiness of a cell.
Truthy(cell) ==
    CASE cell.t \in {"undef", "null", "nan"} -> FALSE
      [] cell.t = "str" -> cell.s # <<>>
      [] cell.t = "num" -> cell.n # 0
      [] cell.t \in {"date", "baddate"} -> TRUE

\* String(cell) for a truthy cell.
ToStr(cell) == IF cell.t = "str" THEN cell.s ELSE NumToString(cell.n)

RECURSIVE TrimStart(_)
TrimStart(s) ==
    IF s # <<>> /\ IsSpace(Head(s)) THEN TrimStart(Tail(s)) ELSE s

RECURSIVE TrimEnd(_)
TrimEnd(s) ==
    IF s # <<>> /\ IsSpace(s[Len(s)]) THEN TrimEnd(SubSeq(s, 1, Len(s) - 1)) ELSE s

Trim(s) == TrimEnd(TrimStart(s))

Includes(s, c) == \E i \in 1..Len(s) : s[i] = c

\* Position of the first c in s (s contains c).
FirstIndex(s, c) ==
    CHOOSE k \in 1..Len(s) : s[k] = c /\ \A j \in 1..(k - 1) : s[j] # c

\* String.prototype.split on a one-character separator.
RECURSIVE Split(_, _)
Split(s, c) ==
    IF ~Includes(s, c) THEN <<s>>
    ELSE <<SubSeq(s, 1, FirstIndex(s, c) - 1)>>
             \o Split(SubSeq(s, FirstIndex(s, c) + 1, Len(s)), c)

\* Length of the longest prefix of decimal digits.
RECURSIVE DigitPrefixLen(_)
DigitPrefixLen(s) ==
    IF s # <<>> /\ IsDigit(Head(s)) THEN 1 + DigitPrefixLen(Tail(s)) ELSE 0

RECURSIVE DigitsValue(_)
DigitsValue(s) ==
    IF s = <<>> THEN 0
    ELSE 10 * DigitsValue(SubSeq(s, 1, Len(s) - 1)) + DigitVal(s[Len(s)])

\* A JavaScript number that may be NaN.
NaN == [nan |-> TRUE, v |-> 0]

Val(v) == [nan |-> FALSE, v |-> v]

\* The integer a text starts with, NaN when it starts with no digit.
DigitsOrNaN(body, negative) ==
    IF DigitPrefixLen(body) = 0 THEN NaN
    ELSE IF negative THEN Val(-DigitsValue(SubSeq(body, 1, DigitPrefixLen(body))))
    ELSE Val(DigitsValue(SubSeq(body, 1, DigitPrefixLen(body))))

\* The integer after an optional sign.
SignedOrNaN(t) ==
    IF t # <<>> /\ Head(t) \in {"-", "+"}
    THEN DigitsOrNaN(Tail(t), Head(t) = "-")
    ELSE DigitsOrNaN(t, FALSE)

\* parseInt(s, 10): leading white space, an optional sign, then the longest
\* run of digits; NaN when that run is empty.  Trailing text is ignored.
ParseInt(s) == SignedOrNaN(TrimStart(s))

PadStart2_NoPad(s) == s

\* String.prototype.padStart(2, '0').
PadStart2(s) == IF Len(s) >= 2 THEN s ELSE <<"0">> \o s

\* ------------------------------------------------------------------------
\* parseTime (route.ts 24-45, 205-226)
\* ------------------------------------------------------------------------
Null == [absent |-> TRUE, str |-> <<>>, mins |-> 0]

Time(str, mins) == [absent |-> FALSE, str |-> str, mins |-> mins]

\* The outcome of a call: not made yet, returned a value, or threw.
Pending == [state |-> "pending", v |-> Null]

Returned(v) == [state |-> "returned", v |-> v]

\* The result for the two parsed parts (route.ts 39-44).
TimeOfParts(hours, minutes) ==
    IF hours.nan \/ minutes.nan THEN Null
    ELSE Time(PadStart2(IntToString(hours.v)) \o <<":">>
                  \o PadStart2(IntToString(minutes.v)),
              (hours.v * 60) + minutes.v)

\* The result for the split text (route.ts 34-37).
TimeOfSplit(parts) ==
    IF Len(parts) < 2 THEN Null
    ELSE TimeOfParts(ParseInt(parts[1]), ParseInt(parts[2]))

TimeOfText_PeriodFirst(timeStr) ==
    IF timeStr = <<>> THEN Null
    ELSE TimeOfSplit(Split(timeStr, IF Includes(timeStr, ".") THEN "." ELSE ":"))

\* The result for the trimmed text (route.ts 28-32).
TimeOfText(timeStr) ==
    IF timeStr = <<>> THEN Null
    ELSE TimeOfSplit(Split(timeStr, IF Includes(timeStr, ":") THEN ":" ELSE "."))

parseTime(cell) ==
    IF ~Truthy(cell) THEN Null ELSE TimeOfText(Trim(ToStr(cell)))

\* ------------------------------------------------------------------------
\* Dates.  A Date is invalid, or a day number since 1970-01-01 (UTC) and the
\* milliseconds within that day.  The server clock is UTC, so getDay reads
\* the weekday of the UTC day.
\* ------------------------------------------------------------------------
MsPerDay == 86400000

ExcelEpochOffset == 25569

InvalidDate == [valid |-> FALSE, day |-> 0, ms |-> 0]

MkDate(day, ms) == [valid |-> TRUE, day |-> day, ms |-> ms]

IsLeap(y) == (y % 4 = 0 /\ y % 100 # 0) \/ y % 400 = 0

DaysInMonth(y, m) ==
    IF m = 2 THEN (IF IsLeap(y) THEN 29 ELSE 28)
    ELSE IF m \in {4, 6, 9, 11} THEN 30 ELSE 31

\* Day number of a proleptic Gregorian calendar date.
DaysFromCivil(y0, m, d) ==
    LET y == IF m <= 2 THEN y0 - 1 ELSE y0
        era == y \div 400
        yoe == y - era * 400
        mp == IF m > 2 THEN m - 3 ELSE m + 9
        doy == ((153 * mp + 2) \div 5) + d - 1
        doe == yoe * 365 + (yoe \div 4) - (yoe \div 100) + doy
    IN era * 146097 + doe - 719468

\* Calendar date of a day number.
CivilFromDays(z0) ==
    LET z == z0 + 719468
        era == z \div 146097
        doe == z - era * 146097
        yoe == (doe - (doe \div 1460) + (doe \div 36524) - (doe \div 146096)) \div 365
        doy == doe - (365 * yoe + (yoe \div 4) - (yoe \div 100))
        mp == (5 * doy + 2) \div 153
        d == doy - ((153 * mp + 2) \div 5) + 1
        m == IF mp < 10 THEN mp + 3 ELSE mp - 9
        y == yoe + era * 400
    IN [y |-> IF m <= 2 THEN y + 1 ELSE y, m |-> m, d |-> d]

AllDigits(s) == \A i \in 1..Len(s) : IsDigit(s[i])

\* The UTC midnight of a calendar date, invalid when there is no such date.
DateOfCivil(y, m, d) ==
    IF m \in 1..12 /\ d >= 1 /\ d <= DaysInMonth(y, m)
    THEN MkDate(DaysFromCivil(y, m, d), 0)
    ELSE InvalidDate

\* new Date(text) for the text forms of the input sets: "YYYY-MM-DD" is UTC
\* midnight of that day, any other text here is an Invalid Date.
ParseDateText(s) ==
    IF /\ Len(s) = 10
       /\ s[5] = "-" /\ s[8] = "-"
       /\ AllDigits(SubSeq(s, 1, 4)) /\ AllDigits(SubSeq(s, 6, 7))
       /\ AllDigits(SubSeq(s, 9, 10))
    THEN DateOfCivil(DigitsValue(SubSeq(s, 1, 4)), DigitsValue(SubSeq(s, 6, 7)),
                     DigitsValue(SubSeq(s, 9, 10)))
    ELSE InvalidDate

\* new Date(value): a number is a count of milliseconds (its fraction is
\* dropped), undefined is invalid, null is the epoch.
NewDate(cell) ==
    CASE cell.t = "str" -> ParseDateText(cell.s)
      [] cell.t = "num" ->
            LET t == IF cell.n >= 0 THEN cell.n \div 10 ELSE -((-cell.n) \div 10)
            IN MkDate(t \div MsPerDay, t % MsPerDay)
      [] cell.t = "null" -> MkDate(0, 0)
      [] cell.t = "date" -> MkDate(cell.n, 0)
      [] cell.t \in {"undef", "nan", "baddate"} -> InvalidDate

\* isNaN(d.getTime()) ? new Date() : d (route.ts 58, 424).
OrNow(d, now) == IF d.valid THEN d ELSE now

\* The date of an Excel serial number given in tenths of a day (route.ts 53).
DateOfSerial(tenths) == MkDate(tenths \div 10, (tenths % 10) * (MsPerDay \div 10))

\* parseDate (route.ts 48-59, 229-240).  now is the value of new Date().
parseDate(dateVal, now) ==
    IF dateVal.t \in {"date", "baddate"} THEN NewDate(dateVal)
    ELSE IF dateVal.t = "nan" THEN InvalidDate
    ELSE IF dateVal.t = "num" THEN DateOfSerial(dateVal.n - ExcelEpochOffset * 10)
    ELSE OrNow(NewDate(dateVal), now)

\* parseDateString (route.ts 421-425).
parseDateString(dateVal, now) ==
    IF dateVal.t \in {"date", "baddate"} THEN NewDate(dateVal)
    ELSE OrNow(NewDate(dateVal), now)

\* Date.prototype.getDay and date-fns getDay: 1970-01-01 was a Thursday.
getDay(date) == IF date.valid THEN Val((date.day + 4) % 7) ELSE NaN

\* The ISO text of a calendar date and a time of day.
IsoOf(c, ms) == [y |-> c.y, m |-> c.m, d |-> c.d, ms |-> ms]

\* Date.prototype.toISOString of a valid date (it throws on an invalid one).
toISOString(date) == IsoOf(CivilFromDays(date.day), date.ms)

\* ------------------------------------------------------------------------
\* calculateDailyMetrics.  Hours are in hundredths of an hour.
\* ------------------------------------------------------------------------
WEEKDAY_HOURS == 850

SATURDAY_HOURS == 400

SUNDAY_HOURS == 0

\* a / b rounded to the nearest integer, halves upwards (b > 0).
RoundDiv(a, b) == (2 * a + b) \div (2 * b)

HoursFixed2_Truncated(diffMins) == (diffMins * 100) \div 60

\* Number((diffMins / 60).toFixed(2)), in hundredths.
HoursFixed2(diffMins) == RoundDiv(diffMins * 100, 60)

IsSunday(dayIndex) == ~dayIndex.nan /\ dayIndex.v = 0

\* a || b
JsOr(a, b) == IF Truthy(a) THEN a ELSE b

DayCategory_SaturdayOffByOne(dayIndex) ==
    IF ~dayIndex.nan /\ dayIndex.v = 0
    THEN [dayName |-> "Sunday", expected |-> SUNDAY_HOURS]
    ELSE IF ~dayIndex.nan /\ dayIndex.v = 5
         THEN [dayName |-> "Saturday", expected |-> SATURDAY_HOURS]
         ELSE [dayName |-> "Weekday", expected |-> WEEKDAY_HOURS]

\* Steps A and B of calculateDailyMetrics: the day category and its hours.
DayCategory(dayIndex) ==
    IF ~dayIndex.nan /\ dayIndex.v = 0
    THEN [dayName |-> "Sunday", expected |-> SUNDAY_HOURS]
    ELSE IF ~dayIndex.nan /\ dayIndex.v = 6
         THEN [dayName |-> "Saturday", expected |-> SATURDAY_HOURS]
         ELSE [dayName |-> "Weekday", expected |-> WEEKDAY_HOURS]

\* diffMins > 0 ? Number((diffMins / 60).toFixed(2)) : 0 (route.ts 91-94).
HoursOfDiff(diffMins) == IF diffMins > 0 THEN HoursFixed2(diffMins) ELSE 0

WorkedStrict_SundayCounted(dayIndex, inObj, outObj) ==
    IF inObj.absent \/ outObj.absent
    THEN [worked |-> 0, isLeave |-> ~IsSunday(dayIndex)]
    ELSE [worked |-> HoursOfDiff(outObj.mins - inObj.mins), isLeave |-> FALSE]

\* Step C of the strict and the persisting variant (route.ts 78-95, 259-276).
WorkedStrict(dayIndex, inObj, outObj) ==
    IF IsSunday(dayIndex) THEN [worked |-> 0, isLeave |-> FALSE]
    ELSE IF inObj.absent \/ outObj.absent THEN [worked |-> 0, isLeave |-> TRUE]
    ELSE [worked |-> HoursOfDiff(outObj.mins - inObj.mins), isLeave |-> FALSE]

Threw == [state |-> "threw", v |-> Null]

Dash == Str(<<"-">>)

\* The object calculateDailyMetrics returns in the strict variant
\* (route.ts 97-105); toISOString throws on an invalid date.
RecordStrict(date, cat, inObj, outObj, w) ==
    IF ~date.valid THEN Threw
    ELSE Returned([date |-> toISOString(date),
                   dayName |-> cat.dayName,
                   inTime |-> IF inObj.absent THEN Dash ELSE Str(inObj.str),
                   outTime |-> IF outObj.absent THEN Dash ELSE Str(outObj.str),
                   expectedHours |-> Val(cat.expected),
                   workedHours |-> Val(w.worked),
                   isLeave |-> w.isLeave])

\* Steps A to C for the parsed date and punches (route.ts 66-95).
MetricsStrict(date, inObj, outObj) ==
    RecordStrict(date, DayCategory(getDay(date)), inObj, outObj,
                 WorkedStrict(getDay(date), inObj, outObj))

\* calculateDailyMetrics of the strict variant (route.ts 61-106).
calculateDailyMetricsStrict(r, now) ==
    MetricsStrict(parseDate(r.date, now), parseTime(r.inT), parseTime(r.outT))

\* The object calculateDailyMetrics returns in the persisting variant
\* (route.ts 278-287).
RecordPersist(date, cat, inObj, outObj, w) ==
    IF ~date.valid THEN Threw
    ELSE Returned([date |-> toISOString(date),
                   dateObj |-> date,
                   dayName |-> cat.dayName,
                   inTime |-> IF inObj.absent THEN JsNull ELSE Str(inObj.str),
                   outTime |-> IF outObj.absent THEN JsNull ELSE Str(outObj.str),
                   expectedHours |-> Val(cat.expected),
                   workedHours |-> Val(w.worked),
                   isLeave |-> w.isLeave])

\* Steps A to C of the persisting variant (route.ts 247-276).
MetricsPersist(date, inObj, outObj) ==
    RecordPersist(date, DayCategory(getDay(date)), inObj, outObj,
                  WorkedStrict(getDay(date), inObj, outObj))

\* calculateDailyMetrics of the persisting variant (route.ts 242-288).
calculateDailyMetricsPersist(r, now) ==
    MetricsPersist(parseDate(r.date, now), parseTime(r.inT), parseTime(r.outT))

\* A magnitude in thousandths with its sign.
Signed(mag, negative) == Val(IF negative THEN -mag ELSE mag)

\* The value of the digits int, a point and the digits frac.
NumberOfFraction(int, frac, negative) ==
    IF ~AllDigits(frac) \/ Len(int) + Len(frac) = 0 THEN NaN
    ELSE Signed(DigitsValue(int) * 1000
                    + DigitsValue(SubSeq(frac \o <<"0", "0", "0">>, 1, 3)),
                negative)

\* The value of the digits int followed by the text rest.
NumberOfParts(int, rest, negative) ==
    IF rest = <<>>
    THEN (IF int = <<>> THEN NaN ELSE Signed(DigitsValue(int) * 1000, negative))
    ELSE IF Head(rest) # "." THEN NaN
    ELSE NumberOfFraction(int, Tail(rest), negative)

\* The value of an unsigned decimal literal.
NumberOfBody(body, negative) ==
    NumberOfParts(SubSeq(body, 1, DigitPrefixLen(body)),
                  SubSeq(body, DigitPrefixLen(body) + 1, Len(body)), negative)

\* The value of a trimmed text.
NumberOfTrimmed(t) ==
    IF t = <<>> THEN Val(0)
    ELSE IF Head(t) \in {"-", "+"} THEN NumberOfBody(Tail(t), Head(t) = "-")
    ELSE NumberOfBody(t, FALSE)

\* Number(text), in thousandths: white space is trimmed, the empty text is 0,
\* an optionally signed decimal literal is its value, anything else is NaN.
NumberJs(s) == NumberOfTrimmed(Trim(s))

\* h * 60 + m (route.ts 462-463).
MinutesOf(h, m) == IF h.nan \/ m.nan THEN NaN ELSE Val(h.v * 60 + m.v)

\* [h, m] = parts.map(Number): a missing second part is undefined, so the
\* sum is NaN.
MinutesOfParts(parts) ==
    MinutesOf(NumberJs(parts[1]), IF Len(parts) < 2 THEN NaN ELSE NumberJs(parts[2]))

\* [h, m] = String(cell).split(':').map(Number); h * 60 + m, in thousandths
\* of a minute.
MinutesOfRaw(cell) == MinutesOfParts(Split(ToStr(cell), ":"))

\* diff > 0 ? Number((diff / 60).toFixed(2)) : 0, a NaN difference being
\* not greater than 0 (route.ts 464-466).
HoursOfRawDiff(startMins, endMins) ==
    IF ~startMins.nan /\ ~endMins.nan /\ endMins.v - startMins.v > 0
    THEN RoundDiv(endMins.v - startMins.v, 600)
    ELSE 0

\* Step 3 of the date-fns variant (route.ts 445-468).
WorkedDateFns(dayIndex, inTime, outTime) ==
    IF IsSunday(dayIndex) THEN [worked |-> 0, isLeave |-> FALSE]
    ELSE IF ~Truthy(inTime) \/ ~Truthy(outTime) THEN [worked |-> 0, isLeave |-> TRUE]
    ELSE [worked |-> HoursOfRawDiff(MinutesOfRaw(inTime), MinutesOfRaw(outTime)),
          isLeave |-> FALSE]

\* The object calculateDailyMetrics returns in the date-fns variant
\* (route.ts 470-478); format throws on an invalid date.
RecordDateFns(date, cat, inTime, outTime, w) ==
    IF ~date.valid THEN Threw
    ELSE Returned([date |-> toISOString(date),
                   dayName |-> cat.dayName,
                   inTime |-> JsOr(inTime, Dash),
                   outTime |-> JsOr(outTime, Dash),
                   expectedHours |-> Val(cat.expected),
                   workedHours |-> Val(w.worked),
                   isLeave |-> w.isLeave])

\* Steps 1 to 3 for the parsed date and the raw punches (route.ts 432-468).
MetricsDateFns(date, inTime, outTime) ==
    RecordDateFns(date, DayCategory(getDay(date)), inTime, outTime,
                  WorkedDateFns(getDay(date), inTime, outTime))

\* calculateDailyMetrics of the date-fns variant (route.ts 427-479).
calculateDailyMetricsDateFns(r, now) ==
    MetricsDateFns(parseDateString(JsOr(r.date, r.dateLc), now),
                   JsOr(r.inT, r.inLc), JsOr(r.outT, r.outLc))

Variants == {"strict", "persist", "datefns"}

calculateDailyMetrics(v, r, now) ==
    CASE v = "strict" -> calculateDailyMetricsStrict(r, now)
      [] v = "persist" -> calculateDailyMetricsPersist(r, now)
      [] v = "datefns" -> calculateDailyMetricsDateFns(r, now)

\* ------------------------------------------------------------------------
\* The upload handlers (POST).  A file is absent, unreadable, or a workbook
\* with a number of sheets and the rows of its first sheet.
\* ------------------------------------------------------------------------
UnknownEmployee == Str(<<"U", "n", "k", "n", "o", "w", "n", " ", "E", "m", "p", "l", "o", "y", "e", "e">>)

NoData == [present |-> FALSE]

Failure(status, success, error) ==
    [status |-> status, success |-> success, error |-> error, data |-> NoData]

Success(data) ==
    [status |-> 200, success |-> "true", error |-> "", data |-> data]

NoResponse == Failure(0, "absent", "")

NoFile == [kind |-> "none", sheets |-> 0, rows |-> <<>>]

\* r[f] of a JavaScript object: undefined when the property is missing.
HasField(r, f) == f \in DOMAIN r

\* sum + r[f] for a numeric property; undefined and NaN make the sum NaN.
AddField(sum, r, f) ==
    IF sum.nan \/ ~HasField(r, f) THEN NaN
    ELSE IF r[f].nan THEN NaN ELSE Val(sum.v + r[f].v)

\* The metrics of every row, in row order.
RECURSIVE MapMetrics(_, _, _)
MapMetrics(v, rows, now) ==
    IF rows = <<>> THEN <<>>
    ELSE <<calculateDailyMetrics(v, Head(rows), now)>> \o MapMetrics(v, Tail(rows), now)

AnyThrew(results) == \E i \in 1..Len(results) : results[i].state = "threw"

Values(results) == [i \in 1..Len(results) |-> results[i].v]

\* totalExpected += metrics.expectedHours (route.ts 153, 508).
RECURSIVE SumExpected(_)
SumExpected(records) ==
    IF records = <<>> THEN Val(0)
    ELSE AddField(SumExpected(SubSeq(records, 1, Len(records) - 1)),
                  records[Len(records)], "expectedHours")

\* totalWorked += metrics.workedHours (route.ts 154, 381, 509).
RECURSIVE SumWorked(_)
SumWorked(records) ==
    IF records = <<>> THEN Val(0)
    ELSE AddField(SumWorked(SubSeq(records, 1, Len(records) - 1)),
                  records[Len(records)], "workedHours")

\* if (metrics.isLeave) leavesTaken++ (route.ts 155, 382, 510).
RECURSIVE CountLeaves(_)
CountLeaves(records) ==
    IF records = <<>> THEN 0
    ELSE CountLeaves(Tail(records)) + (IF Head(records).isLeave THEN 1 ELSE 0)

\* The text of a number of tenths: 840 -> "84.0".
TenthsToString(tenths) ==
    NatToString(tenths \div 10) \o <<".">> \o <<Digits[(tenths % 10) + 1]>>

ToFixed1_Truncated(num, den) == TenthsToString((num * 1000) \div den)

\* ((num / den) * 100).toFixed(1) for num >= 0 and den > 0.
ToFixed1(num, den) == TenthsToString(RoundDiv(num * 1000, den))

\* Step 3 of POST (route.ts 158-161, 385-387, 513-515).
Productivity(totalExpected, totalWorked) ==
    IF totalExpected.v > 0 THEN ToFixed1(totalWorked.v, totalExpected.v)
    ELSE <<"0", ".", "0">>

\* The name cell as the variant keeps it: the strict and the persisting
\* variant convert it with String().
NameOf(v, cell) == IF v = "datefns" THEN cell ELSE Str(ToStr(cell))

\* The first row that carries a name (there is one).
FirstNamed(rows) ==
    CHOOSE k \in 1..Len(rows) :
        Truthy(rows[k].name) /\ \A j \in 1..(k - 1) : ~Truthy(rows[j].name)

EmployeeName_AnyRow(v, rows) ==
    IF \E i \in 1..Len(rows) : Truthy(rows[i].name)
    THEN NameOf(v, rows[FirstNamed(rows)].name)
    ELSE UnknownEmployee

\* The name taken in the row loop (route.ts 144-148, 322-325, 502-503).
EmployeeName(v, rows) ==
    IF rows # <<>> /\ Truthy(rows[1].name) THEN NameOf(v, rows[1].name)
    ELSE UnknownEmployee

Summary(employeeName, totalExpected, totalWorked, leavesTaken, records) ==
    [present |-> TRUE,
     employeeName |-> employeeName,
     totalExpected |-> totalExpected,
     totalWorked |-> totalWorked,
     leavesTaken |-> leavesTaken,
     productivity |-> Productivity(totalExpected, totalWorked),
     records |-> records]

SummaryOf_Carried(employeeName, records) ==
    Summary(employeeName, SumExpected(records),
            IF response.success = "true"
            THEN Val(SumWorked(records).v + response.data.totalWorked.v)
            ELSE SumWorked(records),
            CountLeaves(records), records)

\* Step 3 of POST for the records of the row loop (route.ts 158-172).
SummaryOf(employeeName, records) ==
    Summary(employeeName, SumExpected(records), SumWorked(records),
            CountLeaves(records), records)

\* The response of the strict variant once the rows are processed: an
\* exception in the loop is caught by the handler (route.ts 173-178).
RespondStrict(employeeName, results) ==
    IF AnyThrew(results) THEN Failure(500, "false", "Internal Server Error")
    ELSE Success(SummaryOf(employeeName, Values(results)))

\* POST of the strict variant (route.ts 109-179).
PostStrict(file, now) ==
    IF file.kind = "none" THEN Failure(400, "false", "No file uploaded")
    ELSE IF file.kind = "corrupt" THEN Failure(500, "false", "Internal Server Error")
    ELSE IF file.sheets = 0 THEN Failure(400, "false", "Excel file is empty")
    ELSE IF file.rows = <<>> THEN Failure(400, "false", "No data found in sheet")
    ELSE RespondStrict(EmployeeName("strict", file.rows),
                       MapMetrics("strict", file.rows, now))

\* The response of the date-fns variant once the rows are processed
\* (route.ts 513-532).
RespondDateFns(employeeName, results) ==
    IF AnyThrew(results) THEN Failure(500, "absent", "Processing Failed")
    ELSE Success(SummaryOf(employeeName, Values(results)))

\* The rows the date-fns variant reads: a workbook without sheets decodes
\* to no rows.
RowsOf(file) == IF file.sheets = 0 THEN <<>> ELSE file.rows

\* POST of the date-fns variant (route.ts 481-533).
PostDateFns(file, now) ==
    IF file.kind = "none" THEN Failure(400, "absent", "No file")
    ELSE IF file.kind = "corrupt" THEN Failure(500, "absent", "Processing Failed")
    ELSE RespondDateFns(EmployeeName("datefns", RowsOf(file)),
                        MapMetrics("datefns", RowsOf(file), now))

\* ------------------------------------------------------------------------
\* The store of the persisting variant.  employees is the sequence of
\* employee names, an employee's id its position; attendance is the
\* sequence of attendance records in creation order.
\* ------------------------------------------------------------------------
FindEmployee(emps, name) ==
    IF \E i \in 1..Len(emps) : emps[i] = name
    THEN CHOOSE i \in 1..Len(emps) : emps[i] = name
    ELSE 0

\* prisma.employee.upsert (route.ts 333-337).
UpsertEmployee(emps, name) ==
    IF FindEmployee(emps, name) # 0 THEN emps ELSE Append(emps, name)

FindAttendance(att, employeeId, date) ==
    IF \E i \in 1..Len(att) : att[i].employeeId = employeeId /\ att[i].date = date
    THEN CHOOSE i \in 1..Len(att) : att[i].employeeId = employeeId /\ att[i].date = date
    ELSE 0

\* The stored form of a record (route.ts 346-362).
Stored(id, employeeId, record) ==
    [id |-> id,
     employeeId |-> employeeId,
     date |-> record.dateObj,
     inTime |-> record.inTime,
     outTime |-> record.outTime,
     workedHours |-> record.workedHours,
     isLeave |-> record.isLeave,
     dayType |-> record.dayName]

\* Update of the record at position i, creation when i = 0.
PutAttendance(att, i, employeeId, record) ==
    IF i = 0 THEN Append(att, Stored(Len(att) + 1, employeeId, record))
    ELSE [att EXCEPT ![i] = Stored(att[i].id, employeeId, record)]

\* prisma.attendanceRecord.upsert (route.ts 341-364).
UpsertAttendance(att, employeeId, record) ==
    PutAttendance(att, FindAttendance(att, employeeId, record.dateObj),
                  employeeId, record)

\* The loop over processedRecords (route.ts 340-365).
RECURSIVE SaveAll(_, _, _)
SaveAll(att, employeeId, records) ==
    IF records = <<>> THEN att
    ELSE SaveAll(UpsertAttendance(att, employeeId, Head(records)),
                 employeeId, Tail(records))

DateBefore(a, b) == a.day < b.day \/ (a.day = b.day /\ a.ms < b.ms)

RECURSIVE InsertByDate(_, _)
InsertByDate(sorted, r) ==
    IF sorted = <<>> THEN <<r>>
    ELSE IF DateBefore(r.date, Head(sorted).date) THEN <<r>> \o sorted
    ELSE <<Head(sorted)>> \o InsertByDate(Tail(sorted), r)

RECURSIVE SortByDate(_)
SortByDate(recs) ==
    IF recs = <<>> THEN <<>>
    ELSE InsertByDate(SortByDate(SubSeq(recs, 1, Len(recs) - 1)), recs[Len(recs)])

\* prisma.attendanceRecord.findMany (route.ts 369-372).
FindMany(att, employeeId) ==
    LET IsOf(r) == r.employeeId = employeeId
    IN SortByDate(SelectSeq(att, IsOf))

\* The expected hours of a stored record (route.ts 378-380).
ExpectedOfDayType(dayType) ==
    IF dayType = "Weekday" THEN WEEKDAY_HOURS
    ELSE IF dayType = "Saturday" THEN SATURDAY_HOURS
    ELSE 0

\* The expected hours the persisting variant derives from dayType
\* (route.ts 376-383).
RECURSIVE SumExpectedByDayType(_)
SumExpectedByDayType(recs) ==
    IF recs = <<>> THEN Val(0)
    ELSE Val(SumExpectedByDayType(SubSeq(recs, 1, Len(recs) - 1)).v
                 + ExpectedOfDayType(recs[Len(recs)].dayType))

\* The record sent back for a stored record (route.ts 397-402).
ResponseRecord(r) ==
    [id |-> r.id,
     employeeId |-> r.employeeId,
     date |-> toISOString(r.date),
     inTime |-> JsOr(r.inTime, Dash),
     outTime |-> JsOr(r.outTime, Dash),
     workedHours |-> r.workedHours,
     isLeave |-> r.isLeave,
     dayType |-> r.dayType]

\* A failure of the persisting variant: the store is left as it was.
PersistFailure(status, error, emps, att) ==
    [response |-> Failure(status, "false", error),
     employees |-> emps, attendance |-> att]

\* Step 4 of the persisting variant: totals over all stored records of the
\* employee (route.ts 367-404).
StoredSummary(employeeName, allRecords) ==
    Summary(employeeName, SumExpectedByDayType(allRecords), SumWorked(allRecords),
            CountLeaves(allRecords),
            [i \in 1..Len(allRecords) |-> ResponseRecord(allRecords[i])])

\* The outcome once the employee (id) and the records are stored.
PersistDone(employeeName, id, emps2, att2) ==
    [response |-> Success(StoredSummary(employeeName, FindMany(att2, id))),
     employees |-> emps2,
     attendance |-> att2]

\* Step 3 of the persisting variant, after the employee upsert
\* (route.ts 340-365).
PersistRecords(employeeName, records, emps2, att) ==
    PersistDone(employeeName, FindEmployee(emps2, employeeName.s), emps2,
                SaveAll(att, FindEmployee(emps2, employeeName.s), records))

\* The outcome once the rows are processed (route.ts 327-409).
PersistRows(employeeName, results, emps, att, dbUp) ==
    IF AnyThrew(results) \/ ~dbUp
    THEN PersistFailure(500, "Internal Server Error", emps, att)
    ELSE PersistRecords(employeeName, Values(results),
                        UpsertEmployee(emps, employeeName.s), att)

\* POST of the persisting variant (route.ts 291-410): the response and the
\* store it leaves.  dbUp = FALSE is a store that rejects the first call.
PostPersist(file, now, emps, att, dbUp) ==
    IF file.kind = "none" THEN PersistFailure(400, "No file uploaded", emps, att)
    ELSE IF file.kind = "corrupt"
    THEN PersistFailure(500, "Internal Server Error", emps, att)
    ELSE IF file.sheets = 0 THEN PersistFailure(400, "Excel file is empty", emps, att)
    ELSE IF file.rows = <<>>
    THEN PersistFailure(400, "No data found in sheet", emps, att)
    ELSE PersistRows(EmployeeName("persist", file.rows),
                     MapMetrics("persist", file.rows, now), emps, att, dbUp)

\* ------------------------------------------------------------------------
\* The dashboard (Home).  page is the component served: "filter" is the
\* dashboard with the month filter (src/unnamed/part_000), "basic" the one
\* without it (src/app/page.tsx).  home holds the values of the useState
\* hooks; handler is the position of handleUpload and the file it sent.
\* ------------------------------------------------------------------------
Pages == {"filter", "basic"}

\* selectedMonth = '' and selectedMonth = "YYYY-MM".
NoMonth == [y |-> 0, m |-> 0]

Month(y, m) == [y |-> y, m |-> m]

\* error = null and error = text.
NoError == [present |-> FALSE, text |-> ""]

ErrorText(text) == [present |-> TRUE, text |-> text]

InitialHome ==
    [file |-> NoFile, data |-> NoData, loading |-> FALSE, error |-> NoError,
     selectedMonth |-> NoMonth]

Idle == [at |-> "idle", file |-> NoFile]

\* POST /api/upload as the deployed variant serves it: the response and the
\* store it leaves.
Post(v, file, now, emps, att, dbUp) ==
    CASE v = "strict" ->
            [response |-> PostStrict(file, now), employees |-> emps, attendance |-> att]
      [] v = "datefns" ->
            [response |-> PostDateFns(file, now), employees |-> emps, attendance |-> att]
      [] v = "persist" -> PostPersist(file, now, emps, att, dbUp)

\* The filter test (part_000 66-67): no month selected, or the ISO date of
\* the record starts with "YYYY-MM".
InMonth(r, month) ==
    month = NoMonth \/ (r.date.y = month.y /\ r.date.m = month.m)

\* data.records.filter(...) (part_000 65-68).
FilterRecords(records, month) ==
    LET Keep(r) == InMonth(r, month)
    IN SelectSeq(records, Keep)

NoStats == [present |-> FALSE]

\* The stats object (part_000 81-86).
StatsOfTotals(worked, expected, leaves) ==
    [present |-> TRUE, worked |-> worked, expected |-> expected, leaves |-> leaves,
     productivity |-> Productivity(expected, worked)]

\* The recalculation over the filtered records (part_000 70-86).
StatsOf(records) ==
    StatsOfTotals(SumWorked(records), SumExpected(records), CountLeaves(records))

\* The useMemo of Home (part_000 61-87).
Stats(data, selectedMonth) ==
    IF ~data.present THEN NoStats
    ELSE StatsOf(FilterRecords(data.records, selectedMonth))

\* The file input's onChange (part_000 131-134, page.tsx 45).
SelectFile(files) ==
    /\ ~home.data.present
    /\ \E f \in files :
          home' = IF page = "filter"
                  THEN [home EXCEPT !.error = NoError, !.file = f]
                  ELSE [home EXCEPT !.file = f]
    /\ UNCHANGED <<timeVal, parsed, variant, today, row, metrics, serverVars,
                   page, handler>>

\* The month input's onChange (part_000 164-169).
SelectMonth(months) ==
    /\ page = "filter"
    /\ home.data.present
    /\ \E m \in months \cup {NoMonth} :
          /\ m # home.selectedMonth
          /\ home' = [home EXCEPT !.selectedMonth = m]
    /\ UNCHANGED <<timeVal, parsed, variant, today, row, metrics, serverVars,
                   page, handler>>

\* The "New File" button (part_000 172-174, page.tsx 143).
Reset ==
    /\ home.data.present
    /\ home' = IF page = "filter"
               THEN [home EXCEPT !.data = NoData, !.file = NoFile, !.error = NoError]
               ELSE [home EXCEPT !.data = NoData, !.file = NoFile]
    /\ UNCHANGED <<timeVal, parsed, variant, today, row, metrics, serverVars,
                   page, handler>>

\* A click on the upload button: handleUpload up to the fetch (part_000
\* 35-44, page.tsx 11-17).  The button is shown while there is no data and
\* is disabled without a file and while loading.
StartUpload(limit) ==
    /\ uploads < limit
    /\ ~home.data.present
    /\ home.file # NoFile /\ ~home.loading
    /\ home' = IF page = "filter"
               THEN [home EXCEPT !.loading = TRUE, !.error = NoError]
               ELSE [home EXCEPT !.loading = TRUE]
    /\ handler' = [at |-> "fetching", file |-> home.file]
    /\ UNCHANGED <<timeVal, parsed, variant, today, row, metrics, serverVars, page>>

\* The server answers and the body decodes (part_000 44-45, page.tsx 17-18).
FetchResolves ==
    /\ handler.at = "fetching"
    /\ \E dbUp \in BOOLEAN :
          \E out \in {Post(variant, handler.file, today, employees, attendance, dbUp)} :
             /\ request' = handler.file
             /\ response' = out.response
             /\ employees' = out.employees
             /\ attendance' = out.attendance
             /\ storeUp' = IF variant = "persist" THEN dbUp ELSE storeUp
    /\ uploads' = uploads + 1
    /\ handler' = [handler EXCEPT !.at = "received"]
    /\ UNCHANGED <<timeVal, parsed, variant, today, row, metrics, page, home>>

\* fetch or res.json() throws: no connection, or a body that is not JSON.
FetchRejects ==
    /\ handler.at = "fetching"
    /\ handler' = [handler EXCEPT !.at = "rejected"]
    /\ UNCHANGED <<timeVal, parsed, variant, today, row, metrics, serverVars, page, home>>

\* The state after the decoded response in the dashboard with the filter
\* (part_000 47-52, 56).
SettledFilter(h, res) ==
    IF res.status = 200 /\ res.success = "true"
    THEN [h EXCEPT !.data = res.data, !.selectedMonth = NoMonth, !.loading = FALSE]
    ELSE [h EXCEPT !.error = ErrorText(IF res.error # "" THEN res.error
                                       ELSE "Failed to process file"),
                   !.loading = FALSE]

\* The state after the decoded response in the basic dashboard (page.tsx
\* 20-22); a failure shows an alert and sets no state.
SettledBasic(h, res) ==
    IF res.success = "true" THEN [h EXCEPT !.data = res.data, !.loading = FALSE]
    ELSE [h EXCEPT !.loading = FALSE]

\* handleUpload after the awaits (part_000 47-57, page.tsx 20-22).
FinishUpload ==
    /\ handler.at = "received"
    /\ home' = IF page = "filter" THEN SettledFilter(home, response)
               ELSE SettledBasic(home, response)
    /\ handler' = Idle
    /\ UNCHANGED <<timeVal, parsed, variant, today, row, metrics, serverVars, page>>

\* handleUpload after a throw: the dashboard with the filter catches it
\* (part_000 53-57); in the basic dashboard the rejection ends the handler
\* and nothing else runs (page.tsx 17-18).
AbortUpload ==
    /\ handler.at = "rejected"
    /\ home' = IF page = "filter"
               THEN [home EXCEPT
                        !.error = ErrorText("Network error occurred. Please try again."),
                        !.loading = FALSE]
               ELSE home
    /\ handler' = Idle
    /\ UNCHANGED <<timeVal, parsed, variant, today, row, metrics, serverVars, page>>

\* ------------------------------------------------------------------------
\* Inputs of the time parser
\* ------------------------------------------------------------------------
Alphabet == {"0", "1", "3", "5", "9", ":", ".", "-", " ", "a"}

StringsUpTo(n) == UNION {[1..k -> Alphabet] : k \in 0..n}

\* Longer cells taken from the documented examples.
LongTimeStrings ==
    { <<"0", "9", ":", "0", "0">>, <<"1", "7", ":", "3", "0">>,
      <<"-", "5", ":", "3", "0">>, <<"1", "0", "0", ":", "5">>,
      <<"1", "0", ".", "5", ".", "3">>, <<"9", ":", "3", "0", " ", "a">>,
      <<"9", ".", "3", "0", ":", "1", "5">>,
      <<"0", "9", ":", "3", "0", ":", "1", "5">> }

NumberCells == {Num(n) : n \in {0, 5, 90, 95, 125, 1230, -95}}

TimeCells ==
    {Undef} \cup NumberCells
        \cup {Str(s) : s \in StringsUpTo(MaxLen) \cup LongTimeStrings}

NoRow == [name |-> Undef, date |-> Undef, inT |-> Undef, outT |-> Undef,
          dateLc |-> Undef, inLc |-> Undef, outLc |-> Undef]

\* ------------------------------------------------------------------------
\* Specification of the time parser: one call on an arbitrary cell.
\* ------------------------------------------------------------------------
InitTime ==
    /\ timeVal \in TimeCells
    /\ parsed = Pending
    /\ variant = "strict"
    /\ today = MkDate(0, 0)
    /\ row = NoRow
    /\ metrics = Pending
    /\ employees = <<>>
    /\ attendance = <<>>
    /\ request = NoFile
    /\ response = NoResponse
    /\ uploads = 0
    /\ storeUp = TRUE
    /\ page = "filter"
    /\ home = InitialHome
    /\ handler = Idle

ParseTimeCall ==
    /\ parsed.state = "pending"
    /\ parsed' = Returned(parseTime(timeVal))
    /\ UNCHANGED <<timeVal, variant, today, row, metrics, serverVars, clientVars>>

NextTime == ParseTimeCall

SpecTime == InitTime /\ [][NextTime]_vars

\* ------------------------------------------------------------------------
\* Inputs of calculateDailyMetrics
\* ------------------------------------------------------------------------
\* 2023-10-01 is a Sunday (day 19631, spreadsheet serial 45200).
DateTexts ==
    { <<"2", "0", "2", "3", "-", "1", "0", "-", "0", "1">>, <<"2", "0", "2", "3", "-", "1", "0", "-", "0", "2">>, <<"2", "0", "2", "3", "-", "1", "0", "-", "0", "3">>,
      <<"2", "0", "2", "3", "-", "1", "0", "-", "0", "4">>, <<"2", "0", "2", "3", "-", "1", "0", "-", "0", "7">>,
      <<"2", "0", "2", "3", "-", "1", "3", "-", "0", "1">>, <<"a", "b", "c">> }

DailyDateCells ==
    {Str(s) : s \in DateTexts}
        \cup {Undef, NanCell, BadDateCell, DateCell(19632),
              Num(452000), Num(452060)}

HourTexts == {<<"9">>, <<"0", "9">>, <<"1", "7">>}

MinuteTexts == {<<"0", "0">>, <<"0", "1">>, <<"5">>, <<"3", "0">>}

OddTimeCells ==
    { Undef, Str(<<>>), Str(<<" ">>), Str(<<"a">>), Str(<<"9", ":", "3", "a">>), Str(<<"-", "5", ":", "3", "0">>),
      Str(<<"1", "2">>), Str(<<" ", "9", ":", "5", " ">>), Str(<<"9", ".", "5", ":", "3", "0">>), Num(95) }

DailyTimeCells ==
    {Str(h \o <<sep>> \o m) : h \in HourTexts, sep \in {":", "."}, m \in MinuteTexts}
        \cup OddTimeCells

\* The lower-case columns the date-fns variant also reads: absent or present.
LowerCaseColumns ==
    { [dateLc |-> Undef, inLc |-> Undef, outLc |-> Undef],
      [dateLc |-> Str(<<"2", "0", "2", "3", "-", "1", "0", "-", "0", "3">>), inLc |-> Str(<<"0", "9", ":", "0", "0">>), outLc |-> Str(<<"1", "7", ":", "3", "0">>)] }

Clock == {MkDate(19631, 0), MkDate(19633, 43200000)}

DailyRows ==
    { [name |-> Undef, date |-> d, inT |-> i, outT |-> o,
       dateLc |-> lc.dateLc, inLc |-> lc.inLc, outLc |-> lc.outLc] :
          d \in DailyDateCells, i \in DailyTimeCells, o \in DailyTimeCells,
          lc \in LowerCaseColumns }

\* ------------------------------------------------------------------------
\* Specification of calculateDailyMetrics: one call on an arbitrary row,
\* for each of the three variants.
\* ------------------------------------------------------------------------
InitDaily ==
    /\ timeVal = Undef
    /\ parsed = Pending
    /\ variant \in Variants
    /\ today \in Clock
    /\ row \in DailyRows
    /\ metrics = Pending
    /\ employees = <<>>
    /\ attendance = <<>>
    /\ request = NoFile
    /\ response = NoResponse
    /\ uploads = 0
    /\ storeUp = TRUE
    /\ page = "filter"
    /\ home = InitialHome
    /\ handler = Idle

CalculateCall ==
    /\ metrics.state = "pending"
    /\ metrics' = calculateDailyMetrics(variant, row, today)
    /\ UNCHANGED <<timeVal, parsed, variant, today, row, serverVars, clientVars>>

NextDaily == CalculateCall

SpecDaily == InitDaily /\ [][NextDaily]_vars

\* ------------------------------------------------------------------------
\* Inputs of the upload handlers
\* ------------------------------------------------------------------------
MaxRows == 2

MaxUploads == 2

MaxBatchRows == 3

Row(name, date, inT, outT) ==
    [name |-> name, date |-> date, inT |-> inT, outT |-> outT,
     dateLc |-> Undef, inLc |-> Undef, outLc |-> Undef]

Monday == Str(<<"2", "0", "2", "3", "-", "1", "0", "-", "0", "2">>)

Saturday == Str(<<"2", "0", "2", "3", "-", "1", "0", "-", "0", "7">>)

Sunday == Str(<<"2", "0", "2", "3", "-", "1", "0", "-", "0", "1">>)

\* Rows of the uploads of a session: a full weekday, the same weekday with
\* other punches, a Saturday, a Sunday with punches, and a row without a
\* date and without a check-in.
SessionRows ==
    { Row(Str(<<"A">>), Monday, Str(<<"0", "9", ":", "0", "0">>), Str(<<"1", "7", ":", "3", "0">>)),
      Row(Str(<<"A">>), Monday, Str(<<"0", "9", ":", "0", "0">>), Str(<<"1", "1", ":", "0", "0">>)),
      Row(Str(<<"B">>), Saturday, Str(<<"0", "9", ":", "0", "0">>), Str(<<"1", "1", ":", "0", "0">>)),
      Row(Undef, Sunday, Str(<<"0", "9", ":", "0", "0">>), Str(<<"1", "7", ":", "3", "0">>)),
      Row(Str(<<>>), Undef, Undef, Str(<<"1", "7", ":", "3", "0">>)) }

BatchNames == {Undef, Str(<<>>), Str(<<"A">>), Str(<<"B">>)}

BatchDates == {Monday, Saturday, Sunday}

BatchPunches == {<<Str(<<"0", "9", ":", "0", "0">>), Str(<<"1", "1", ":", "0", "0">>)>>, <<Undef, Str(<<"1", "7", ":", "3", "0">>)>>}

\* Rows of a single upload: every name on a full weekday; every day with a
\* short day and with a missing check-in; a ten-minute Saturday; a row whose
\* date cell is null.  sheet_to_json with raw: false (route.ts 131, 311, 493)
\* yields formatted text, null for an error cell, or no property at all.
BatchRows ==
    {Row(n, Monday, Str(<<"0", "9", ":", "0", "0">>), Str(<<"1", "7", ":", "3", "0">>)) : n \in BatchNames}
        \cup {Row(Str(<<"B">>), d, p[1], p[2]) : d \in BatchDates, p \in BatchPunches}
        \cup {Row(Str(<<"B">>), Saturday, Str(<<"0", "9", ":", "0", "0">>), Str(<<"0", "9", ":", "1", "0">>)),
              Row(Str(<<"B">>), JsNull, Str(<<"0", "9", ":", "0", "0">>), Str(<<"1", "7", ":", "3", "0">>))}

SeqsUpTo(S, n) == UNION {[1..k -> S] : k \in 0..n}

Workbook(sheets, rows) == [kind |-> "workbook", sheets |-> sheets, rows |-> rows]

FilesOver(rows, n) ==
    { NoFile,
      [kind |-> "corrupt", sheets |-> 0, rows |-> <<>>],
      Workbook(0, <<>>) }
        \cup {Workbook(1, rs) : rs \in SeqsUpTo(rows, n)}

SessionFiles == FilesOver(SessionRows, MaxRows)

BatchFiles == FilesOver(BatchRows, MaxBatchRows)

\* ------------------------------------------------------------------------
\* Specification of the upload handlers.  A deployment runs one variant;
\* each upload is one call of its POST.
\* ------------------------------------------------------------------------
InitServer ==
    /\ timeVal = Undef
    /\ parsed = Pending
    /\ variant \in Variants
    /\ today \in Clock
    /\ row = NoRow
    /\ metrics = Pending
    /\ employees = <<>>
    /\ attendance = <<>>
    /\ request = NoFile
    /\ response = NoResponse
    /\ uploads = 0
    /\ storeUp = TRUE
    /\ page = "filter"
    /\ home = InitialHome
    /\ handler = Idle

PostStrictCall(files, limit) ==
    /\ variant = "strict"
    /\ uploads < limit
    /\ \E file \in files :
          /\ request' = file
          /\ response' = PostStrict(file, today)
    /\ uploads' = uploads + 1
    /\ UNCHANGED <<timeVal, parsed, variant, today, row, metrics, employees, attendance,
                   storeUp, clientVars>>

PostDateFnsCall(files, limit) ==
    /\ variant = "datefns"
    /\ uploads < limit
    /\ \E file \in files :
          /\ request' = file
          /\ response' = PostDateFns(file, today)
    /\ uploads' = uploads + 1
    /\ UNCHANGED <<timeVal, parsed, variant, today, row, metrics, employees, attendance,
                   storeUp, clientVars>>

PostPersistCall(files, limit) ==
    /\ variant = "persist"
    /\ uploads < limit
    /\ \E file \in files, dbUp \in BOOLEAN :
          \E out \in {PostPersist(file, today, employees, attendance, dbUp)} :
             /\ request' = file
             /\ response' = out.response
             /\ employees' = out.employees
             /\ attendance' = out.attendance
             /\ storeUp' = dbUp
    /\ uploads' = uploads + 1
    /\ UNCHANGED <<timeVal, parsed, variant, today, row, metrics, clientVars>>

\* Time passes between uploads.
Tick ==
    /\ \E t \in Clock : DateBefore(today, t) /\ today' = t
    /\ UNCHANGED <<timeVal, parsed, variant, row, metrics, serverVars, clientVars>>

Next ==
    \/ PostStrictCall(SessionFiles, MaxUploads)
    \/ PostPersistCall(SessionFiles, MaxUploads)
    \/ PostDateFnsCall(SessionFiles, MaxUploads)
    \/ Tick

Spec == InitServer /\ [][Next]_vars

\* A single upload of a larger sheet.
NextBatch ==
    \/ PostStrictCall(BatchFiles, 1)
    \/ PostPersistCall(BatchFiles, 1)
    \/ PostDateFnsCall(BatchFiles, 1)

\* The single upload is made at noon of 2023-10-03.
InitBatch ==
    /\ timeVal = Undef
    /\ parsed = Pending
    /\ variant \in Variants
    /\ today = MkDate(19633, 43200000)
    /\ row = NoRow
    /\ metrics = Pending
    /\ employees = <<>>
    /\ attendance = <<>>
    /\ request = NoFile
    /\ response = NoResponse
    /\ uploads = 0
    /\ storeUp = TRUE
    /\ page = "filter"
    /\ home = InitialHome
    /\ handler = Idle

SpecBatch == InitBatch /\ [][NextBatch]_vars

\* ========================================================================
\* Properties
\* ========================================================================
\* Weekday index of the calendar date a record carries.
RecordDayIndex(rec) == (DaysFromCivil(rec.date.y, rec.date.m, rec.date.d) + 4) % 7

\* The check-in and check-out cells a variant reads from a row.
CheckInCell == IF variant = "datefns" THEN JsOr(row.inT, row.inLc) ELSE row.inT

CheckOutCell == IF variant = "datefns" THEN JsOr(row.outT, row.outLc) ELSE row.outT

\* C1: for every row, isLeave = true and workedHours = 0 exactly when the
\* day is not Sunday and the time parser returns absent for the check-in or
\* the check-out cell; in every other case isLeave = false.  Stated for all
\* three variants of calculateDailyMetrics.
C1_LeaveIffPunchAbsent ==
    metrics.state = "returned" =>
        LET absentPunch == parseTime(CheckInCell).absent \/ parseTime(CheckOutCell).absent
            leave == RecordDayIndex(metrics.v) # 0 /\ absentPunch
        IN /\ metrics.v.isLeave = leave
           /\ leave => metrics.v.workedHours = Val(0)

\* C2: for every non-Sunday row whose check-in and check-out both parse (the
\* variants that use parseTime), workedHours is never negative, is 0 when
\* the check-out is at or before the check-in, and is otherwise the multiple
\* of 0.01 nearest to (checkOutMinutes - checkInMinutes) / 60; 09:00 to
\* 17:30 gives 8.5.
C2_WorkedHoursRounded ==
    (/\ metrics.state = "returned"
     /\ variant \in {"strict", "persist"}
     /\ RecordDayIndex(metrics.v) # 0
     /\ ~parseTime(row.inT).absent /\ ~parseTime(row.outT).absent) =>
        LET diff == parseTime(row.outT).mins - parseTime(row.inT).mins
            w == metrics.v.workedHours
        IN /\ ~w.nan /\ w.v >= 0
           /\ diff <= 0 => w.v = 0
           /\ diff > 0 => 2 * Abs(60 * w.v - 100 * diff) <= 60
           /\ (row.inT = Str(<<"0", "9", ":", "0", "0">>) /\ row.outT = Str(<<"1", "7", ":", "3", "0">>)) => w.v = 850

C2_Witness ==
    /\ metrics.state = "returned"
    /\ variant = "strict"
    /\ row.date = Str(<<"2", "0", "2", "3", "-", "1", "0", "-", "0", "4">>)
    /\ row.inT = Str(<<"0", "9", ":", "0", "0">>) /\ row.outT = Str(<<"1", "7", ":", "3", "0">>)
    /\ metrics.v.workedHours = Val(850)
    /\ ~metrics.v.isLeave

\* C3: every row whose date falls on a Sunday yields dayName "Sunday",
\* expectedHours 0, workedHours 0 and isLeave false, whatever the punches.
C3_SundayNeverCounted ==
    (metrics.state = "returned" /\ RecordDayIndex(metrics.v) = 0) =>
        /\ metrics.v.dayName = "Sunday"
        /\ metrics.v.expectedHours = Val(0)
        /\ metrics.v.workedHours = Val(0)
        /\ metrics.v.isLeave = FALSE

C3_Witness ==
    /\ metrics.state = "returned"
    /\ row.date = Str(<<"2", "0", "2", "3", "-", "1", "0", "-", "0", "1">>)
    /\ row.inT = Str(<<"0", "9", ":", "0", "0">>) /\ row.outT = Str(<<"1", "7", ":", "3", "0">>)
    /\ metrics.v.dayName = "Sunday"
    /\ metrics.v.workedHours = Val(0)

\* C4: (dayName, expectedHours) is a function of the weekday index alone:
\* 0 gives (Sunday, 0), 6 gives (Saturday, 4.0), 1..5 give (Weekday, 8.5).
C4_DayCategoryByWeekday ==
    metrics.state = "returned" =>
        LET idx == RecordDayIndex(metrics.v)
            got == <<metrics.v.dayName, metrics.v.expectedHours>>
        IN /\ idx = 0 => got = <<"Sunday", Val(0)>>
           /\ idx = 6 => got = <<"Saturday", Val(400)>>
           /\ idx \in 1..5 => got = <<"Weekday", Val(850)>>

C4_Witness ==
    /\ metrics.state = "returned"
    /\ row.date = Str(<<"2", "0", "2", "3", "-", "1", "0", "-", "0", "7">>)
    /\ row.inT = Undef
    /\ metrics.v.dayName = "Saturday"
    /\ metrics.v.expectedHours = Val(400)

\* A text "H:M" or "H.M" with H and M non-empty runs of decimal digits.
SeparatorAt(s, i) ==
    /\ s[i] \in {":", "."}
    /\ i > 1 /\ i < Len(s)
    /\ AllDigits(SubSeq(s, 1, i - 1))
    /\ AllDigits(SubSeq(s, i + 1, Len(s)))

IsHourMinuteText(s) == \E i \in 1..Len(s) : SeparatorAt(s, i)

\* f is the decimal text of v, left-padded with zeros to two digits.
IsPadded2(f, v) ==
    /\ Len(f) >= 2
    /\ AllDigits(f)
    /\ DigitsValue(f) = v
    /\ Len(f) > 2 => f[1] # "0"

\* C5: for every text "H:M" or "H.M" with H and M non-negative decimal
\* integers, parseTime returns mins = 60*H + M and str = H and M each
\* left-padded with zeros to two digits, joined by a colon.
C5_ParseTimeRoundTrip ==
    (parsed.state = "returned" /\ timeVal.t = "str" /\ IsHourMinuteText(timeVal.s)) =>
        LET s == timeVal.s
            i == CHOOSE k \in 1..Len(s) : SeparatorAt(s, k)
            H == DigitsValue(SubSeq(s, 1, i - 1))
            M == DigitsValue(SubSeq(s, i + 1, Len(s)))
            out == parsed.v.str
        IN /\ ~parsed.v.absent
           /\ parsed.v.mins = 60 * H + M
           /\ \E j \in 1..Len(out) :
                 /\ out[j] = ":"
                 /\ IsPadded2(SubSeq(out, 1, j - 1), H)
                 /\ IsPadded2(SubSeq(out, j + 1, Len(out)), M)

C5_Witness ==
    /\ parsed.state = "returned"
    /\ timeVal = Str(<<"9", ":", "5">>)
    /\ parsed.v = Time(<<"0", "9", ":", "0", "5">>, 545)

\* A part that is an integer: an optional sign and decimal digits only.
IsIntegerText(p) ==
    LET t == Trim(p)
        body == IF t # <<>> /\ Head(t) \in {"-", "+"} THEN Tail(t) ELSE t
    IN body # <<>> /\ AllDigits(body)

\* An empty, null/undefined or malformed time cell, as C6 lists them.
IsMalformedTimeCell(cell) ==
    \/ cell.t \in {"undef", "null"}
    \/ /\ cell.t \in {"str", "num"}
       /\ LET t == Trim(ToStr(cell))
              parts == Split(t, IF Includes(t, ":") THEN ":" ELSE ".")
          IN \/ t = <<>>
             \/ Len(parts) < 2
             \/ ~IsIntegerText(parts[1])
             \/ ~IsIntegerText(parts[2])

\* C6: for every empty, null/undefined or malformed time cell (empty or
\* white-space-only text, fewer than two parts, or a first or second part
\* that is not an integer), parseTime returns absent.
C6_MalformedIsAbsent ==
    (parsed.state = "returned" /\ IsMalformedTimeCell(timeVal)) => parsed.v.absent

\* C7: every non-absent value parseTime returns has mins >= 0 and str of
\* the shape two digits, colon, two digits.
C7_ParsedTimeShape ==
    (parsed.state = "returned" /\ ~parsed.v.absent) =>
        /\ parsed.v.mins >= 0
        /\ Len(parsed.v.str) = 5
        /\ parsed.v.str[3] = ":"
        /\ \A i \in {1, 2, 4, 5} : IsDigit(parsed.v.str[i])

\* total + r[f] as JavaScript adds it, for the sums of C8.
RECURSIVE SumOfField(_, _)
SumOfField(records, f) ==
    IF records = <<>> THEN Val(0)
    ELSE LET rest == SumOfField(Tail(records), f)
             r == Head(records)
         IN IF rest.nan \/ f \notin DOMAIN r THEN NaN
            ELSE IF r[f].nan THEN NaN ELSE Val(r[f].v + rest.v)

\* C8: in every success response, totalExpected is the sum of expectedHours
\* over exactly the returned records, totalWorked the sum of their
\* workedHours, and leavesTaken the number of them with isLeave = true.
C8_TotalsAreSumsOfRecords ==
    response.success = "true" =>
        LET d == response.data
        IN /\ d.totalExpected = SumOfField(d.records, "expectedHours")
           /\ d.totalWorked = SumOfField(d.records, "workedHours")
           /\ d.leavesTaken = Cardinality({i \in 1..Len(d.records) : d.records[i].isLeave})

\* The tenths written by a text of the shape digits, point, digit.
IsFixed1Text(p) ==
    /\ Len(p) >= 3
    /\ p[Len(p) - 1] = "."
    /\ AllDigits(SubSeq(p, 1, Len(p) - 2))
    /\ IsDigit(p[Len(p)])

Fixed1Tenths(p) == 10 * DigitsValue(SubSeq(p, 1, Len(p) - 2)) + DigitVal(p[Len(p)])

\* C9: productivity is the one-decimal text nearest to
\* totalWorked / totalExpected * 100 whenever totalExpected > 0, and is
\* "0.0" whenever totalExpected = 0; 12.5 expected and 10.5 worked give
\* "84.0".
C9_ProductivityOneDecimal ==
    response.success = "true" =>
        LET te == response.data.totalExpected.v
            tw == response.data.totalWorked.v
            p == response.data.productivity
        IN /\ te = 0 => p = <<"0", ".", "0">>
           /\ te > 0 => /\ IsFixed1Text(p)
                        /\ 2 * Abs(Fixed1Tenths(p) * te - 1000 * tw) <= te
           /\ (te = 1250 /\ tw = 1050) => p = <<"8", "4", ".", "0">>

C9_Witness ==
    /\ response.success = "true"
    /\ variant = "strict"
    /\ Len(response.data.records) = 3
    /\ response.data.totalExpected = Val(1250)
    /\ response.data.totalWorked = Val(1050)
    /\ response.data.productivity = <<"8", "4", ".", "0">>

\* C10: employeeName is the first row's "Employee Name" when that value is
\* present and non-empty and "Unknown Employee" otherwise; no later row
\* affects it.
C10_NameFromFirstRowOnly ==
    response.success = "true" =>
        LET rows == IF request.sheets = 0 THEN <<>> ELSE request.rows
            got == response.data.employeeName
        IN IF rows # <<>> /\ rows[1].name.t = "str" /\ rows[1].name.s # <<>>
           THEN got = rows[1].name
           ELSE got = UnknownEmployee

C10_Witness ==
    /\ response.success = "true"
    /\ Len(request.rows) >= 2
    /\ request.rows[1].name = Undef
    /\ request.rows[2].name = Str(<<"A">>)
    /\ response.data.employeeName = UnknownEmployee

\* C11: calculateDailyMetrics never fails: for every row, also one whose
\* Date cell is missing, unparsable, a non-finite or out-of-range number or
\* an invalid date value, parseDate returns a valid date and
\* calculateDailyMetrics returns a record without throwing.
C11_NeverFails ==
    metrics.state # "pending" =>
        /\ variant \in {"strict", "persist"} => parseDate(row.date, today).valid
        /\ metrics.state = "returned"

\* The Date cell calculateDailyMetrics reads.
CheckDateCell == IF variant = "datefns" THEN JsOr(row.date, row.dateLc) ELSE row.date

\* C12: a numeric spreadsheet-serial Date cell is parsed to the same calendar
\* date by every variant: the date (serial - 25569) days after 1970-01-01.
C12_SerialDateInEveryVariant ==
    (metrics.state = "returned" /\ CheckDateCell.t = "num") =>
        /\ metrics.v.date.y = CivilFromDays((CheckDateCell.n \div 10) - 25569).y
        /\ metrics.v.date.m = CivilFromDays((CheckDateCell.n \div 10) - 25569).m
        /\ metrics.v.date.d = CivilFromDays((CheckDateCell.n \div 10) - 25569).d

\* C13: an upload with no file, a workbook without sheets, a first sheet
\* without rows, or an exception while decoding, aggregating or persisting
\* ends in a failure response (success is not true) that carries no totals
\* and no records.
C13_StructuralFailureFails ==
    (/\ uploads > 0
     /\ \/ request.kind \in {"none", "corrupt"}
        \/ request.sheets = 0
        \/ request.rows = <<>>
        \/ AnyThrew(MapMetrics(variant, request.rows, today))
        \/ variant = "persist" /\ ~storeUp) =>
        /\ response.success # "true"
        /\ response.data = NoData

\* ------------------------------------------------------------------------
\* Specification of the persisting handler alone: uploads made in the
\* morning and at noon of Tuesday 2023-10-03, of sheets with a row dated
\* that day and a row without a date.
\* ------------------------------------------------------------------------
Tuesday == Str(<<"2", "0", "2", "3", "-", "1", "0", "-", "0", "3">>)

StoreRows ==
    { Row(Str(<<"A">>), Tuesday, Str(<<"0", "9", ":", "0", "0">>), Str(<<"1", "7", ":", "3", "0">>)),
      Row(Str(<<"A">>), Undef, Str(<<"0", "9", ":", "0", "0">>), Str(<<"1", "1", ":", "0", "0">>)),
      Row(Str(<<"B">>), Tuesday, Undef, Str(<<"1", "7", ":", "3", "0">>)) }

StoreFiles == FilesOver(StoreRows, MaxRows)

StoreClock == {MkDate(19633, 32400000), MkDate(19633, 43200000)}

InitStore ==
    /\ timeVal = Undef
    /\ parsed = Pending
    /\ variant = "persist"
    /\ today \in StoreClock
    /\ row = NoRow
    /\ metrics = Pending
    /\ employees = <<>>
    /\ attendance = <<>>
    /\ request = NoFile
    /\ response = NoResponse
    /\ uploads = 0
    /\ storeUp = TRUE
    /\ page = "filter"
    /\ home = InitialHome
    /\ handler = Idle

\* Time passes between uploads.
TickOver(clock) ==
    /\ \E t \in clock : DateBefore(today, t) /\ today' = t
    /\ UNCHANGED <<timeVal, parsed, variant, row, metrics, serverVars, clientVars>>

NextStore ==
    \/ PostPersistCall(StoreFiles, MaxUploads)
    \/ TickOver(StoreClock)

SpecStore == InitStore /\ [][NextStore]_vars

\* C14: after any sequence of uploads through the persisting handler the
\* store holds at most one attendance record per (employee, calendar date)
\* and at most one employee per name.
C14_OneRecordPerEmployeeAndDay ==
    /\ \A i, j \in 1..Len(attendance) :
          (/\ attendance[i].employeeId = attendance[j].employeeId
           /\ attendance[i].date.day = attendance[j].date.day) => i = j
    /\ \A i, j \in 1..Len(employees) : employees[i] = employees[j] => i = j

\* The day category a returned record carries (dayName, or dayType in the
\* records the persisting variant sends).
CategoryOf(rec) == IF HasField(rec, "dayName") THEN rec.dayName ELSE rec.dayType

\* rec is the daily record calculateDailyMetrics returned as m.
IsRecordOf(rec, m) ==
    /\ m.state = "returned"
    /\ rec.date = m.v.date
    /\ CategoryOf(rec) = m.v.dayName
    /\ rec.workedHours = m.v.workedHours
    /\ rec.isLeave = m.v.isLeave

\* C15: in every success response, records holds exactly one daily record
\* per input row, in row order: the i-th record is calculateDailyMetrics of
\* the i-th row, whatever was uploaded before.
C15_OneRecordPerRowInOrder ==
    [][(uploads' = uploads + 1 /\ response'.success = "true") =>
          /\ Len(response'.data.records) = Len(RowsOf(request'))
          /\ \A i \in 1..Len(response'.data.records) :
                /\ i <= Len(RowsOf(request'))
                /\ IsRecordOf(response'.data.records[i],
                              calculateDailyMetrics(variant, RowsOf(request')[i], today))]_vars

\* ------------------------------------------------------------------------
\* C17
\* ------------------------------------------------------------------------
\* The positions of separator c in t, and the text of t between two
\* positions (0 and Len(t) + 1 stand for the ends of the text).
Positions(t, c) == {k \in 1..Len(t) : t[k] = c}

Least(S) == CHOOSE k \in S : \A j \in S : k <= j

Between(t, from, to) == SubSeq(t, from + 1, to - 1)

\* Hour and minute part of t for separator c, which occurs in t: the text
\* before the first c, and the text from there to the second c or the end.
HourPart(t, c) == Between(t, 0, Least(Positions(t, c)))

MinutePart(t, c) ==
    Between(t, Least(Positions(t, c)),
            Least((Positions(t, c) \ {Least(Positions(t, c))}) \cup {Len(t) + 1}))

TimeBySeparator(t, c) ==
    IF Positions(t, c) = {} THEN Null
    ELSE TimeOfParts(ParseInt(HourPart(t, c)), ParseInt(MinutePart(t, c)))

\* C17: parseTime chooses one separator per cell. When the trimmed text
\* contains a colon anywhere, hour and minute are the first two
\* colon-separated parts, even when the text also contains periods; the
\* period separates only when the text contains no colon; any part after
\* the second is ignored.
C17_OneSeparatorPerCell ==
    (parsed.state = "returned" /\ Truthy(timeVal) /\ Trim(ToStr(timeVal)) # <<>>) =>
        parsed.v = TimeBySeparator(Trim(ToStr(timeVal)),
                                   IF Positions(Trim(ToStr(timeVal)), ":") # {}
                                   THEN ":" ELSE ".")

\* "9.30:15" is split on the colon: hour "9.30" reads 9, minute 15.
C17_Witness ==
    /\ parsed.state = "returned"
    /\ timeVal = Str(<<"9", ".", "3", "0", ":", "1", "5">>)
    /\ parsed.v = Time(<<"0", "9", ":", "1", "5">>, 555)

\* ------------------------------------------------------------------------
\* Specification of the dashboard: the user picks files, uploads them to
\* the deployed variant, filters by month and resets.
\* ------------------------------------------------------------------------
September30 == Str(<<"2", "0", "2", "3", "-", "0", "9", "-", "3", "0">>)

\* Rows of the sheets a user uploads: a full Monday in October, a short
\* Saturday in September, and a Monday without a check-in.
DashboardRows ==
    { Row(Str(<<"A">>), Monday, Str(<<"0", "9", ":", "0", "0">>), Str(<<"1", "7", ":", "3", "0">>)),
      Row(Str(<<"A">>), September30, Str(<<"0", "9", ":", "0", "0">>), Str(<<"1", "1", ":", "0", "0">>)),
      Row(Str(<<"A">>), Monday, Undef, Str(<<"1", "7", ":", "3", "0">>)) }

DashboardFiles == FilesOver(DashboardRows, MaxRows)

DashboardMonths == {Month(2023, 9), Month(2023, 10)}

InitDashboard ==
    /\ timeVal = Undef
    /\ parsed = Pending
    /\ variant \in Variants
    /\ today = MkDate(19633, 43200000)
    /\ row = NoRow
    /\ metrics = Pending
    /\ employees = <<>>
    /\ attendance = <<>>
    /\ request = NoFile
    /\ response = NoResponse
    /\ uploads = 0
    /\ storeUp = TRUE
    /\ page \in Pages
    /\ home = InitialHome
    /\ handler = Idle

NextDashboard ==
    \/ SelectFile(DashboardFiles)
    \/ StartUpload(MaxUploads)
    \/ FetchResolves
    \/ FetchRejects
    \/ FinishUpload
    \/ AbortUpload
    \/ SelectMonth(DashboardMonths)
    \/ Reset

SpecDashboard == InitDashboard /\ [][NextDashboard]_vars

\* ------------------------------------------------------------------------
\* C16
\* ------------------------------------------------------------------------
\* The four summary values of a response.
TotalsOf(d) ==
    <<d.totalExpected, d.totalWorked, d.leavesTaken, d.productivity>>

C18_StatsEqualServerTotals ==
    (page = "filter" /\ home.data.present /\ home.selectedMonth = NoMonth) =>
        /\ Stats(home.data, home.selectedMonth).worked = home.data.totalWorked
        /\ Stats(home.data, home.selectedMonth).expected = home.data.totalExpected
        /\ Stats(home.data, home.selectedMonth).leaves = home.data.leavesTaken
        /\ Stats(home.data, home.selectedMonth).productivity = home.data.productivity

\* ------------------------------------------------------------------------
\* C19
\* ------------------------------------------------------------------------
\* C19: every started upload ends with loading = false, whether the
\* server answered with success, answered with a failure, or the fetch or
\* the decoding threw; when it ends exactly one of data and error is set,
\* data after a success and error otherwise; and no upload starts while
\* loading is true.
C19_UploadEndsNotLoading ==
    [][/\ (handler.at # "idle" /\ handler'.at = "idle") =>
              /\ ~home'.loading
              /\ home'.data.present # home'.error.present
              /\ home'.data.present <=>
                    (handler.at = "received" /\ response.success = "true")
       /\ (handler.at = "idle" /\ handler'.at # "idle") => ~home.loading]_vars

====
